---- MODULE Spec2Model ----
(***************************************************************************)
(* Model of the DesignMyNight provider client                              *)
(* (src/booking_providers/design_my_night.py): the request executor with   *)
(* its retry loop, the per-venue booking-type cache, the availability      *)
(* aggregation that fans out two sub-requests per booking type, and the    *)
(* submission of a booking.                                                *)
(*                                                                         *)
(* A coroutine runs without interruption between two awaits, so every      *)
(* action below is one such uninterrupted stretch of a call: from the call *)
(* (or from the resumption after a network response, a backoff sleep or    *)
(* the gather) up to the next suspension or the return.                    *)
(***************************************************************************)
EXTENDS Integers, Sequences, FiniteSets, TLC

(***************************************************************************)
(* Bounds of the model.                                                    *)
(***************************************************************************)
\* MAX_RETRIES is a class attribute (1 in the source); the executor is
\* explored for every value 1..MaxRetries of it.
MaxRetries == 2
\* Steps of the wall clock over one behaviour.
MaxTicks == 2

(***************************************************************************)
(* Program constants.                                                      *)
(***************************************************************************)
BOOKING_TYPES_CACHE_TTL == 3600

\* The wall clock advances in steps of half a TTL, so that ages below,
\* equal to and above the TTL all occur.
TickStep == BOOKING_TYPES_CACHE_TTL \div 2

Venues == {"V1"}
\* The callers that share one client.
Callers == {1, 2}

VARIABLES
    MAX_RETRIES,          \* DesignMyNightBookingAPI.MAX_RETRIES
    now,                  \* datetime.now().timestamp()
    _booking_types_cache,  \* self._booking_types_cache: venue -> set of BookingType
    _last_cache_update,    \* self._last_cache_update: venue -> timestamp
    calls,                \* per caller: the frame of its get_availability_per_date call
    lookup_log,           \* per venue: its latest catalog lookups, oldest first
    bookings,             \* per caller: the frame of its create_booking call
    metaData              \* availability_slot.metaData of the slot the callers book

vars == <<MAX_RETRIES, now, _booking_types_cache, _last_cache_update, calls,
          lookup_log, bookings, metaData>>

(***************************************************************************)
(* Values: results and exceptions.                                         *)
(***************************************************************************)
NoResult == [kind |-> "none"]
Data(d) == [kind |-> "data", data |-> d]
\* An exception; cause is the exception it was raised from ("raise ... from e").
Error(name, cause) == [kind |-> "error", name |-> name, cause |-> cause]

IsError(r) == r.kind = "error"
IsData(r) == r.kind = "data"

(***************************************************************************)
(* Request executor: _make_request_with_retry.                             *)
(* A request is the frame of one call of the executor: attempt is the loop *)
(* variable (0-based), state says whether an HTTP attempt is in flight,    *)
(* the loop sleeps between two attempts, or the call has ended; last is    *)
(* the outcome of the latest attempt, only_timeouts whether every attempt  *)
(* that ended so far timed out, and result what the call returned or       *)
(* raised.                                                                 *)
(***************************************************************************)
\* What one HTTP attempt can end in: a 2xx response with a JSON body,
\* asyncio.TimeoutError, aiohttp.ClientError (raise_for_status on a non-2xx
\* status, or a transport failure), or a body that response.json() cannot
\* decode (json.JSONDecodeError, which is no ClientError).
Outcomes == {"ok", "timeout", "client_error", "decode_error"}

\* No call of the executor.
NoRequest ==
    [attempt |-> 0, state |-> "none", last |-> "none", only_timeouts |-> TRUE,
     result |-> NoResult]

\* The executor entered: the loop's first attempt is in flight.
NewRequest ==
    [attempt |-> 0, state |-> "inflight", last |-> "none", only_timeouts |-> TRUE,
     result |-> NoResult]

\* Mutant: the failure of the first attempt is taken for the last one.
IsFirstAttempt(req) == req.attempt = 0

IsLastAttempt(req) == req.attempt = MAX_RETRIES - 1

Finish(req, outcome, result) ==
    [req EXCEPT !.state = "done", !.last = outcome, !.result = result,
                !.only_timeouts = @ /\ outcome = "timeout"]

Sleep(req, outcome) ==
    [req EXCEPT !.state = "sleep", !.last = outcome,
                !.only_timeouts = @ /\ outcome = "timeout"]

\* Mutant: the ClientError of the last attempt is re-raised as it is, the way
\* the timeout branch does.
make_request_reraising(req, outcome, data) ==
    CASE outcome = "ok" -> Finish(req, outcome, Data(data))
      [] outcome = "timeout" ->
            IF IsLastAttempt(req)
            THEN Finish(req, outcome, Error("TimeoutError", "none"))
            ELSE Sleep(req, outcome)
      [] outcome = "client_error" ->
            IF IsLastAttempt(req)
            THEN Finish(req, outcome, Error("ClientError", "none"))
            ELSE Sleep(req, outcome)
      [] outcome = "decode_error" ->
            Finish(req, outcome, Error("JSONDecodeError", "none"))

\* The in-flight attempt of req ends in outcome (with body data when ok).
_make_request_with_retry(req, outcome, data) ==
    CASE outcome = "ok" -> Finish(req, outcome, Data(data))
      [] outcome = "timeout" ->
            IF IsLastAttempt(req)
            THEN Finish(req, outcome, Error("TimeoutError", "none"))
            ELSE Sleep(req, outcome)
      [] outcome = "client_error" ->
            IF IsLastAttempt(req)
            THEN Finish(req, outcome, Error("RequestFailedError", "ClientError"))
            ELSE Sleep(req, outcome)
      [] outcome = "decode_error" ->
            Finish(req, outcome, Error("JSONDecodeError", "none"))

\* asyncio.sleep(2**attempt) is over: the loop issues the next attempt.
next_attempt(req) == [req EXCEPT !.attempt = @ + 1, !.state = "inflight", !.last = "none"]

\* HTTP attempts issued so far by the executor call req.
AttemptsIssued(req) == req.attempt + 1

(***************************************************************************)
(* Strings that are compared: a time "HH:MM" is the tuple of its           *)
(* characters' code points, so that Python's str ordering can be computed. *)
(***************************************************************************)
EmptyStr == <<>>
T1800 == <<49, 56, 58, 48, 48>>
T1900 == <<49, 57, 58, 48, 48>>
T0900 == <<57, 58, 48, 48>>      \* "9:00", as some venues write it

RECURSIVE StrLess(_, _)
\* a < b for Python strings.
StrLess(a, b) ==
    IF b = <<>> THEN FALSE
    ELSE IF a = <<>> THEN TRUE
    ELSE IF Head(a) # Head(b) THEN Head(a) < Head(b)
    ELSE StrLess(Tail(a), Tail(b))

StrLeq(a, b) == a = b \/ StrLess(a, b)

(***************************************************************************)
(* Response parsing.                                                       *)
(***************************************************************************)
BookingType(id, name) == [id |-> id, name |-> name]

\* One entry of payload.validation.type.suggestedValues: shape "ok" is a dict
\* whose "value" is a dict with id and name; "skip" is an entry the
\* comprehension's filter drops (not a dict, or "value" not a dict); "nokey"
\* passes the filter but its value lacks "id" or "name".
TypeItem(shape, id, name) == [shape |-> shape, id |-> id, name |-> name]

\* Mutant: an entry without id or name is dropped instead of raising.
parse_booking_types_lenient(items) ==
    Data({BookingType(items[i].id, items[i].name) :
             i \in {j \in 1..Len(items) : items[j].shape = "ok"}})

\* The set comprehension of __get_booking_types over the response's items.
parse_booking_types(items) ==
    IF \E i \in 1..Len(items) : items[i].shape = "nokey"
    THEN Error("KeyError", "none")
    ELSE Data({BookingType(items[i].id, items[i].name) :
                  i \in {j \in 1..Len(items) : items[j].shape = "ok"}})

\* A raw suggestion of payload.validation.time.suggestedValues; action is
\* NoKey when the dict has no "action" key.
NoKey == "<no key>"
RawSlot(time, valid, action) == [time |-> time, valid |-> valid, action |-> action]
TimeSlot(time, action) == [time |-> time, action |-> action]

\* The filter of __get_time_slots: slot.get("valid") and slot.get("time")
\* and slot["action"] != "reject"; the subscript raises on a missing key.
SlotRaises(raw) == raw.valid /\ raw.time # EmptyStr /\ raw.action = NoKey
\* Mutant: the action of a suggestion is not looked at.
SlotKeptWithRejects(raw) == raw.valid /\ raw.time # EmptyStr

SlotKept(raw) == raw.valid /\ raw.time # EmptyStr /\ raw.action # "reject"

RECURSIVE KeptSlots(_)
KeptSlots(raws) ==
    IF raws = <<>> THEN <<>>
    ELSE (IF SlotKept(Head(raws))
          THEN <<TimeSlot(Head(raws).time, Head(raws).action)>>
          ELSE <<>>) \o KeptSlots(Tail(raws))

__get_time_slots(raws) ==
    IF \E i \in 1..Len(raws) : SlotRaises(raws[i])
    THEN Error("KeyError", "none")
    ELSE Data(KeptSlots(raws))

\* The payload of the fields=next response: shape "bad_next" has a "next"
\* that is no dict, so that .get on it raises AttributeError. deposit is the
\* JSON value of "depositRequired" (False when the key is absent).
DetailsPayload(shape, web, deposit, details) ==
    [shape |-> shape, web |-> web, deposit |-> deposit, details |-> details]

BookingDetails(link, deposit_required, details) ==
    [link |-> link, deposit_required |-> deposit_required, details |-> details]

__get_booking_details(payload) ==
    IF payload.shape = "bad_next"
    THEN Error("AttributeError", "none")
    ELSE Data(BookingDetails(payload.web, payload.deposit, payload.details))

(***************************************************************************)
(* Availability slots: _create_availability_slot and the AvailabilitySlot  *)
(* model (src/models/availability_models.py).                              *)
(***************************************************************************)
\* JSON values "depositRequired" is seen with: a boolean, null, or an object
\* of the RequiredDeposit shape (amountUnits, currency).
DepositValues == {"true", "false", "null", "object"}

\* Python truth value of such a value.
Truthy(v) == v \in {"true", "object"}

\* requiredDeposit: RequiredDeposit | None. pydantic accepts None and a
\* RequiredDeposit-shaped mapping for this field, and no bool.
RequiredDepositValid(v) == v \in {"null", "object"}

\* Mutant: the deposit flag is not looked at.
booking_form_action_by_action(slot, booking_details) ==
    IF slot.action \in {"enquire", "may_enquire"}
    THEN "website"
    ELSE "booking_injection"

booking_form_action(slot, booking_details) ==
    IF Truthy(booking_details.deposit_required)
          \/ slot.action \in {"enquire", "may_enquire"}
    THEN "website"
    ELSE "booking_injection"

\* The AvailabilitySlot the constructor returns, or the ValidationError it
\* raises.
_create_availability_slot(slot, booking_details, booking_type) ==
    IF RequiredDepositValid(booking_details.deposit_required)
    THEN Data([provider |-> "designMyNight",
               timeSlot |-> slot.time,
               url |-> booking_details.link,
               maxDuration |-> 90,
               minDuration |-> 45,
               tag |-> booking_type.name,
               metaData |-> booking_details.details,
               bookingFormAction |-> booking_form_action(slot, booking_details),
               requiredDeposit |-> booking_details.deposit_required,
               dobRequired |-> FALSE])
    ELSE Error("ValidationError", "none")

RECURSIVE InsertSorted(_, _)
\* x put after every element whose key is <= its own: a stable insertion.
InsertSorted(sorted, x) ==
    IF sorted = <<>> THEN <<x>>
    ELSE IF StrLess(x.timeSlot, Head(sorted).timeSlot)
         THEN <<x>> \o sorted
         ELSE <<Head(sorted)>> \o InsertSorted(Tail(sorted), x)

\* Mutant: the slots are returned in the order they were built.
Unsorted(slots) == slots

RECURSIVE SortedByTimeSlot(_)
\* sorted(all_slots, key=lambda x: x.timeSlot): ascending and stable.
SortedByTimeSlot(slots) ==
    IF slots = <<>> THEN <<>>
    ELSE InsertSorted(SortedByTimeSlot(SubSeq(slots, 1, Len(slots) - 1)),
                      slots[Len(slots)])

\* The slots one booking type contributes (lines 175-189): none when its
\* time-slot result is an exception or its details result no BookingDetails.
TypeSkipped(time_slots, booking_details) ==
    IsError(time_slots) \/ ~IsData(booking_details)

TypeSlots(booking_type, time_slots, booking_details) ==
    IF TypeSkipped(time_slots, booking_details) THEN <<>>
    ELSE [i \in 1..Len(time_slots.data) |->
            _create_availability_slot(time_slots.data[i], booking_details.data,
                                     booking_type)]

RECURSIVE AllSlotsMisjoined(_, _)
\* Mutant: a type's time slots are joined with the details that come last in
\* the results, another type's when there are two.
AllSlotsMisjoined(order, results) ==
    IF order = <<>> THEN <<>>
    ELSE TypeSlots(Head(order), results[1], results[Len(results)])
            \o AllSlotsMisjoined(Tail(order), SubSeq(results, 3, Len(results)))

RECURSIVE AllSlots(_, _)
\* all_slots after the loop over zip(booking_types, range(0, len(results), 2)),
\* each element still the constructor's outcome.
AllSlots(order, results) ==
    IF order = <<>> THEN <<>>
    ELSE TypeSlots(Head(order), results[1], results[2])
            \o AllSlots(Tail(order), SubSeq(results, 3, Len(results)))

\* Mutant: one failed sub-request empties the whole result.
aggregate_all_or_nothing(order, results) ==
    IF \E i \in 1..Len(results) : IsError(results[i])
    THEN Data(<<>>)
    ELSE LET made == AllSlots(order, results)
         IN  IF \E i \in 1..Len(made) : IsError(made[i])
             THEN Error("ValidationError", "none")
             ELSE Data(SortedByTimeSlot([i \in 1..Len(made) |-> made[i].data]))

\* What get_availability_per_date returns or raises once the gather is over.
aggregate(order, results) ==
    LET made == AllSlots(order, results)
    IN  IF \E i \in 1..Len(made) : IsError(made[i])
        THEN Error("ValidationError", "none")
        ELSE Data(SortedByTimeSlot([i \in 1..Len(made) |-> made[i].data]))

(***************************************************************************)
(* The booking-type cache: __get_booking_types.                            *)
(***************************************************************************)
\* Mutant: the age is compared the wrong way round.
cache_hit_inverted(venue_id, current_time) ==
    /\ venue_id \in DOMAIN _booking_types_cache
    /\ current_time - _last_cache_update[venue_id] > BOOKING_TYPES_CACHE_TTL

\* The cache check of lines 304-308 at time current_time.
cache_hit(venue_id, current_time) ==
    /\ venue_id \in DOMAIN _booking_types_cache
    /\ current_time - _last_cache_update[venue_id] < BOOKING_TYPES_CACHE_TTL

\* dict[key] = value.
Store(dict, key, value) ==
    [k \in DOMAIN dict \cup {key} |-> IF k = key THEN value ELSE dict[k]]

\* Mutant: the fetched set is merged into the entry.
updated_cache_merged(venue_id, booking_types) ==
    Store(_booking_types_cache, venue_id,
          IF venue_id \in DOMAIN _booking_types_cache
          THEN _booking_types_cache[venue_id] \cup booking_types
          ELSE booking_types)

\* Lines 334-335: the cache after a successful fetch of booking_types by a
\* call that read the clock at current_time.
updated_cache(venue_id, booking_types) ==
    Store(_booking_types_cache, venue_id, booking_types)

\* Mutant: the entry is stamped with the time the response arrives.
updated_timestamps_at_response(venue_id, current_time) ==
    Store(_last_cache_update, venue_id, now)

updated_timestamps(venue_id, current_time) ==
    Store(_last_cache_update, venue_id, current_time)

(***************************************************************************)
(* Frames of get_availability_per_date.                                    *)
(* pc: "idle" before the first call, "catalog" while __get_booking_types   *)
(* awaits the executor, "gather" while the call awaits asyncio.gather,     *)
(* "returned" once the call has returned or raised (result). request is    *)
(* the executor call of the catalog lookup, tasks the executor calls of    *)
(* the gathered coroutines and results what asyncio.gather collects.       *)
(* overtaken is history kept for the properties: some task of the gather   *)
(* settled while a task launched before it was still running.              *)
(***************************************************************************)
IdleFrame ==
    [pc |-> "idle", venue_id |-> "none", current_time |-> 0,
     request |-> NoRequest, booking_types |-> <<>>, tasks |-> <<>>,
     results |-> <<>>, result |-> NoResult, overtaken |-> FALSE]

\* The sequences that list the set S once each: the orders in which a for
\* loop can iterate a Python set.
Orders(S) ==
    {o \in [1..Cardinality(S) -> S] : \A i, j \in 1..Cardinality(S) : i # j => o[i] # o[j]}

\* Mutant: a venue without booking types is an error.
fan_out_rejecting_empty(frame, order) ==
    IF order = <<>>
    THEN [frame EXCEPT !.pc = "returned", !.booking_types = <<>>, !.tasks = <<>>,
                       !.current_time = 0,
                       !.result = Error("ValueError", "none")]
    ELSE [frame EXCEPT !.pc = "gather", !.booking_types = order,
                       !.current_time = 0,
                       !.tasks = [i \in 1..(2 * Len(order)) |-> NewRequest],
                       !.results = [i \in 1..(2 * Len(order)) |-> NoResult]]

\* Lines 156-166 from the moment booking_types is known: two coroutines per
\* booking type are handed to asyncio.gather, which starts them all; with no
\* booking type the gather is over at once and the call returns [].
fan_out(frame, order) ==
    IF order = <<>>
    THEN [frame EXCEPT !.pc = "returned", !.booking_types = <<>>, !.tasks = <<>>,
                       !.current_time = 0,
                       !.result = aggregate(<<>>, <<>>)]
    ELSE [frame EXCEPT !.pc = "gather", !.booking_types = order,
                       !.current_time = 0,
                       !.tasks = [i \in 1..(2 * Len(order)) |-> NewRequest],
                       !.results = [i \in 1..(2 * Len(order)) |-> NoResult]]

\* Mutant: a failed lookup falls back to the venue's stale entry.
raise_or_use_stale(frame, error) ==
    IF frame.pc = "catalog" /\ frame.venue_id \in DOMAIN _booking_types_cache
    THEN fan_out(frame, CHOOSE o \in Orders(_booking_types_cache[frame.venue_id]) : TRUE)
    ELSE [frame EXCEPT !.pc = "returned", !.booking_types = <<>>, !.tasks = <<>>,
                       !.current_time = 0, !.result = error]

\* The call ends by raising error.
raise(frame, error) ==
    [frame EXCEPT !.pc = "returned", !.booking_types = <<>>, !.tasks = <<>>,
                  !.current_time = 0, !.result = error]

\* The frame of create_booking: pc is "idle" before the first call, "post"
\* while the call awaits the executor, "returned" once it has returned or
\* raised (result); venue_id, user and covers are the arguments passed in,
\* params the merged parameters and request the executor call of
\* POST /bookings. found is history kept for the properties: the parameters
\* as line 231 found them, before the update.
NoUser == [email |-> "", phone |-> "", firstName |-> "", lastName |-> ""]
IdleBooking ==
    [pc |-> "idle", venue_id |-> "none", user |-> NoUser, covers |-> "",
     found |-> <<>>, params |-> <<>>, request |-> NoRequest, result |-> NoResult]

\* metaData of an AvailabilitySlot: kind "none" is metaData = None, "null" a
\* BookingTimeSlotMetaData whose designMyNight is None, "dict" one whose
\* designMyNight is the dict given. NoSlot: no slot has been handed over yet.
MetaData(kind, designMyNight) == [kind |-> kind, designMyNight |-> designMyNight]
NoSlot == MetaData("no slot", <<>>)

\* History kept for the properties: the log of a venue with one more lookup,
\* cut to its two latest entries.
Logged(log, entry) ==
    IF Len(log) < 2 THEN Append(log, entry) ELSE Append(Tail(log), entry)

Init ==
    /\ MAX_RETRIES \in 1..MaxRetries
    /\ now = 0
    /\ _booking_types_cache = <<>>
    /\ _last_cache_update = <<>>
    /\ calls = [c \in Callers |-> IdleFrame]
    /\ lookup_log = [v \in Venues |-> <<>>]
    /\ bookings = [c \in Callers |-> IdleBooking]
    /\ metaData = NoSlot

\* Caller c calls get_availability_per_date(venue_id, date, covers); order is
\* the iteration order of the cached set, used on a cache hit.
get_availability_per_date(c, venue_id, order) ==
    /\ calls[c].pc \in {"idle", "returned"}
    /\ LET frame == [IdleFrame EXCEPT !.venue_id = venue_id]
       IN  IF cache_hit(venue_id, now)
           THEN /\ order \in Orders(_booking_types_cache[venue_id])
                /\ calls' = [calls EXCEPT ![c] = fan_out(frame, order)]
                /\ lookup_log' = lookup_log
           ELSE /\ order = <<>>
                /\ calls' = [calls EXCEPT ![c] =
                        [frame EXCEPT !.pc = "catalog", !.current_time = now,
                                      !.request = NewRequest]]
                /\ lookup_log' = [lookup_log EXCEPT ![venue_id] =
                        Logged(@, [time |-> now,
                                   refresh |-> venue_id \in DOMAIN _booking_types_cache])]
    /\ UNCHANGED <<bookings, metaData, MAX_RETRIES, now, _booking_types_cache, _last_cache_update>>

\* The in-flight attempt of c's catalog lookup ends in outcome, with the
\* suggestedValues items when ok; order is the iteration order of the parsed set.
CatalogResponse(c, outcome, items, order) ==
    /\ calls[c].pc = "catalog"
    /\ calls[c].request.state = "inflight"
    /\ LET frame == calls[c]
           req == _make_request_with_retry(frame.request, outcome, items)
           parsed == parse_booking_types(items)
       IN  IF req.state = "sleep"
           THEN /\ order = <<>>
                /\ calls' = [calls EXCEPT ![c].request = req]
                /\ UNCHANGED <<_booking_types_cache, _last_cache_update>>
           ELSE IF IsError(req.result)
           THEN /\ order = <<>>
                /\ calls' = [calls EXCEPT ![c] =
                        raise([frame EXCEPT !.request = req], req.result)]
                /\ UNCHANGED <<_booking_types_cache, _last_cache_update>>
           ELSE IF IsError(parsed)
           THEN /\ order = <<>>
                /\ calls' = [calls EXCEPT ![c] =
                        raise([frame EXCEPT !.request = req], parsed)]
                /\ UNCHANGED <<_booking_types_cache, _last_cache_update>>
           ELSE /\ order \in Orders(parsed.data)
                /\ _booking_types_cache' = updated_cache(frame.venue_id, parsed.data)
                /\ _last_cache_update' =
                        updated_timestamps(frame.venue_id, frame.current_time)
                /\ calls' = [calls EXCEPT ![c] =
                        fan_out([frame EXCEPT !.request = req], order)]
    /\ UNCHANGED <<bookings, metaData, MAX_RETRIES, now, lookup_log>>

\* The backoff sleep of c's catalog lookup is over.
CatalogRetry(c) ==
    /\ calls[c].pc = "catalog"
    /\ calls[c].request.state = "sleep"
    /\ calls' = [calls EXCEPT ![c].request = next_attempt(@)]
    /\ UNCHANGED <<bookings, metaData, MAX_RETRIES, now, _booking_types_cache, _last_cache_update,
                   lookup_log>>

\* Task i of c's gather: the odd ones are __get_time_slots, the even ones
\* __get_booking_details, of booking type (i + 1) \div 2.
IsTimeSlotsTask(i) == i % 2 = 1

\* What the task's coroutine returns or raises once its executor call ended.
task_result(i, req, body) ==
    IF IsError(req.result) THEN req.result
    ELSE IF IsTimeSlotsTask(i) THEN __get_time_slots(body)
    ELSE __get_booking_details(body)

\* Mutant: results are collected in the order the tasks settle, as
\* asyncio.as_completed would hand them out.
gather_store_as_completed(results, i, value) ==
    LET free == {j \in 1..Len(results) : results[j] = NoResult}
        first == CHOOSE j \in free : \A k \in free : j <= k
    IN  [results EXCEPT ![first] = value]

\* asyncio.gather(*tasks, return_exceptions=True): what task i returned or
\* raised becomes element i of the result list, whenever the task settles.
gather_store(results, i, value) == [results EXCEPT ![i] = value]

\* The in-flight attempt of task i of c's gather ends in outcome, with body
\* when ok.
TaskResponse(c, i, outcome, body) ==
    /\ calls[c].pc = "gather"
    /\ i \in 1..Len(calls[c].tasks)
    /\ calls[c].tasks[i].state = "inflight"
    /\ LET req == _make_request_with_retry(calls[c].tasks[i], outcome, body)
       IN  calls' = [calls EXCEPT ![c].tasks[i] = req,
                                  ![c].results =
                                        IF req.state = "sleep" THEN @
                                        ELSE gather_store(@, i, task_result(i, req, body)),
                                  ![c].overtaken =
                                        \/ @
                                        \/ /\ req.state = "done"
                                           /\ \E j \in 1..(i - 1) :
                                                calls[c].tasks[j].state # "done"]
    /\ UNCHANGED <<bookings, metaData, MAX_RETRIES, now, _booking_types_cache, _last_cache_update,
                   lookup_log>>

\* The backoff sleep of task i of c's gather is over.
TaskRetry(c, i) ==
    /\ calls[c].pc = "gather"
    /\ i \in 1..Len(calls[c].tasks)
    /\ calls[c].tasks[i].state = "sleep"
    /\ calls' = [calls EXCEPT ![c].tasks[i] = next_attempt(@)]
    /\ UNCHANGED <<bookings, metaData, MAX_RETRIES, now, _booking_types_cache, _last_cache_update,
                   lookup_log>>

\* Mutant: a gather without return_exceptions, which hands the first
\* exception of a task to the caller while the other tasks still run.
GatherRaisesFirstException(c) ==
    /\ calls[c].pc = "gather"
    /\ \E i \in 1..Len(calls[c].tasks) :
            /\ calls[c].tasks[i].state = "done"
            /\ IsError(calls[c].results[i])
            /\ calls' = [calls EXCEPT ![c] =
                    [calls[c] EXCEPT !.pc = "returned", !.result = calls[c].results[i]]]
    /\ UNCHANGED <<bookings, metaData, MAX_RETRIES, now, _booking_types_cache, _last_cache_update,
                   lookup_log>>

\* Every task of c's gather has settled: the call resumes, builds the slots
\* and returns them sorted (lines 168-191).
GatherReturn(c) ==
    /\ calls[c].pc = "gather"
    /\ \A i \in 1..Len(calls[c].tasks) : calls[c].tasks[i].state = "done"
    /\ LET frame == calls[c]
       IN  calls' = [calls EXCEPT ![c] =
                [frame EXCEPT !.pc = "returned",
                              !.result = aggregate(frame.booking_types, frame.results)]]
    /\ UNCHANGED <<bookings, metaData, MAX_RETRIES, now, _booking_types_cache, _last_cache_update,
                   lookup_log>>

\* The wall clock advances.
Tick ==
    /\ now < MaxTicks * TickStep
    /\ now' = now + TickStep
    /\ UNCHANGED <<bookings, metaData, MAX_RETRIES, _booking_types_cache, _last_cache_update, calls,
                   lookup_log>>

(***************************************************************************)
(* Inputs: what the provider answers.                                      *)
(***************************************************************************)
Dinner == BookingType("t1", "Dinner")
Bar == BookingType("t2", "Bar")
TypeOrders == UNION {Orders(S) : S \in SUBSET {Dinner, Bar}}

TypeItems ==
    {TypeItem("ok", "t1", "Dinner"), TypeItem("ok", "t2", "Bar"),
     TypeItem("skip", "", ""), TypeItem("nokey", "", "")}

\* Catalog responses that list at most one entry.
CatalogBodies == {<<>>} \cup {<<item>> : item \in TypeItems}

\* Time-slot responses: none, one bookable slot, Scenario A's two slots, a
\* slot without an action.
TimeSlotBodies ==
    {<<>>,
     <<RawSlot(T1800, TRUE, "book")>>,
     <<RawSlot(T1800, TRUE, "book"), RawSlot(T1900, TRUE, "reject")>>,
     <<RawSlot(T1800, TRUE, NoKey)>>}

DetailsBodies ==
    {DetailsPayload("ok", "https://x", d, "details") : d \in DepositValues}
        \cup {DetailsPayload("bad_next", "", "false", "details")}

\* Bodies come with ok responses only.
NoBody == <<>>

\* A step of caller c in get_availability_per_date up to the fan-out, the
\* provider answering the catalog lookup from catalogs.
LookupStep(c, venues, catalogs) ==
    \/ \E venue_id \in venues, order \in TypeOrders :
            get_availability_per_date(c, venue_id, order)
    \/ \E outcome \in Outcomes \ {"ok"} : CatalogResponse(c, outcome, NoBody, <<>>)
    \/ \E items \in catalogs, order \in TypeOrders :
            CatalogResponse(c, "ok", items, order)
    \/ CatalogRetry(c)

\* A step of caller c's gather, the provider answering from the given bodies.
GatherStep(c, time_slots, details) ==
    \/ \E i \in 1..Len(calls[c].tasks), outcome \in Outcomes \ {"ok"} :
            TaskResponse(c, i, outcome, NoBody)
    \/ \E i \in 1..Len(calls[c].tasks) :
            \E body \in (IF IsTimeSlotsTask(i) THEN time_slots ELSE details) :
                TaskResponse(c, i, "ok", body)
    \/ \E i \in 1..Len(calls[c].tasks) : TaskRetry(c, i)
    \/ GatherReturn(c)

\* One caller at a time on the client.
Next ==
    \/ Tick
    \/ LookupStep(1, Venues, CatalogBodies)
    \/ GatherStep(1, TimeSlotBodies, DetailsBodies)

Spec == Init /\ [][Next]_vars

\* Two callers share the client and ask for a venue without booking types.
NextConcurrent ==
    \/ Tick
    \/ \E c \in Callers :
          LookupStep(c, Venues, {<<>>, <<TypeItem("nokey", "", "")>>})

SpecConcurrent == Init /\ [][NextConcurrent]_vars

\* The client as shipped: MAX_RETRIES = 1, every request is attempted once.
InitShipped == Init /\ MAX_RETRIES = 1

\* Two callers share the client as shipped and ask for a venue whose catalog
\* changes from lookup to lookup; the sub-requests of a fan-out are answered
\* with no time slot.
NextRefresh ==
    \/ Tick
    \/ \E c \in Callers :
          \/ \E venue_id \in Venues, order \in TypeOrders :
                get_availability_per_date(c, venue_id, order)
          \/ \E outcome \in Outcomes \ {"ok"} :
                CatalogResponse(c, outcome, NoBody, <<>>)
          \/ \E items \in {<<>>, <<TypeItem("ok", "t1", "Dinner")>>,
                            <<TypeItem("ok", "t2", "Bar")>>},
                order \in TypeOrders :
                CatalogResponse(c, "ok", items, order)
          \/ \E i \in 1..Len(calls[c].tasks) :
                TaskResponse(c, i, "ok",
                             IF IsTimeSlotsTask(i) THEN <<>>
                             ELSE DetailsPayload("ok", "https://x", "null", "details"))
          \/ GatherReturn(c)

SpecRefresh == InitShipped /\ [][NextRefresh]_vars

\* Catalog responses of venues with two, one and no booking type.
AggregateCatalogs ==
    {<<TypeItem("ok", "t1", "Dinner"), TypeItem("ok", "t2", "Bar")>>,
     <<TypeItem("ok", "t1", "Dinner")>>,
     <<>>}

\* Time-slot responses: none; Scenario A's two slots; two slots listed latest
\* first, one of them for enquiry; a slot with a one-digit hour next to one
\* that is not valid and one without a time; a slot without an action.
AggregateTimeSlotBodies ==
    {<<>>,
     <<RawSlot(T1800, TRUE, "book"), RawSlot(T1900, TRUE, "reject")>>,
     <<RawSlot(T1900, TRUE, "may_enquire"), RawSlot(T1800, TRUE, "book")>>,
     <<RawSlot(T0900, TRUE, "book"), RawSlot(T1800, FALSE, "book"),
       RawSlot(EmptyStr, TRUE, "book")>>,
     <<RawSlot(T1800, TRUE, NoKey)>>}

\* Booking-details responses that can be told apart by link and details.
AggregateDetailsBodies ==
    {DetailsPayload("ok", "https://x", "null", "details-x"),
     DetailsPayload("ok", "https://y", "object", "details-y"),
     DetailsPayload("ok", "https://z", "false", "details-z"),
     DetailsPayload("bad_next", "", "false", "details")}

\* One caller asks again and again for a venue whose catalog lookup succeeds;
\* every sub-request of the fan-out ends in any outcome, in any order.
NextAggregate ==
    \/ \E venue_id \in Venues, order \in TypeOrders :
            get_availability_per_date(1, venue_id, order)
    \/ \E items \in AggregateCatalogs, order \in TypeOrders :
            CatalogResponse(1, "ok", items, order)
    \/ \E i \in 1..Len(calls[1].tasks), outcome \in Outcomes \ {"ok"} :
            TaskResponse(1, i, outcome, NoBody)
    \/ \E i \in 1..Len(calls[1].tasks) :
            \E body \in (IF IsTimeSlotsTask(i) THEN AggregateTimeSlotBodies
                          ELSE AggregateDetailsBodies) :
                TaskResponse(1, i, "ok", body)
    \/ GatherReturn(1)

SpecAggregate == InitShipped /\ [][NextAggregate]_vars

(***************************************************************************)
(* Booking submission: create_booking and _create_booking_from_response.   *)
(* A dict is a function from its keys; Python's None is the value None.    *)
(***************************************************************************)
None == "None"
EmptyDict == <<>>

REQUIRED_BOOKING_FIELDS ==
    {"venue_id", "source", "type", "first_name", "last_name", "email",
     "num_people", "date", "time"}

\* Mutant: a key the dict holds already keeps its value.
UpdateKeepingExisting(dict, other) ==
    [k \in DOMAIN dict \cup DOMAIN other |->
        IF k \in DOMAIN dict THEN dict[k] ELSE other[k]]

\* dict.update(other): the keys of other are set, the other keys are kept.
Update(dict, other) ==
    [k \in DOMAIN dict \cup DOMAIN other |->
        IF k \in DOMAIN other THEN other[k] ELSE dict[k]]

\* The argument of params.update (lines 233-243): every one of its nine keys
\* is set, to None where the user has no value for it. The slot is one for
\* 18:00 on 2025-01-01.
overlay(venue_id, user, covers) ==
    [venue_id |-> venue_id,
     date |-> "2025-01-01",
     time |-> "18:00",
     num_people |-> covers,
     source |-> "partner",
     first_name |-> user.firstName,
     last_name |-> user.lastName,
     email |-> user.email,
     phone |-> user.phone]

\* availability_slot.metaData.designMyNight or {}: the dict itself when it is
\* a non-empty dict, a new empty dict when it is None or empty.
\* (metaData = None raises before, see create_booking.)
IsNonEmptyDict(meta) == meta.kind = "dict" /\ DOMAIN meta.designMyNight # {}
designMyNight_or_empty(meta) ==
    IF IsNonEmptyDict(meta) THEN meta.designMyNight ELSE EmptyDict

\* Mutant: nothing is ever reported missing.
missing_fields_unchecked(params) == {}

\* Line 246: REQUIRED_BOOKING_FIELDS - params.keys().
missing_fields(params) == REQUIRED_BOOKING_FIELDS \ DOMAIN params

BookingValidationError(missing) ==
    [kind |-> "error", name |-> "BookingValidationError", cause |-> "none",
     missing_fields |-> missing]

BookingRejectedError(status) ==
    [kind |-> "error", name |-> "BookingRejectedError", cause |-> "none",
     status |-> status]

\* The body of the response to POST /bookings: shape "nokey" lacks a key that
\* _create_booking_from_response subscripts.
BookingResponseBody(shape, bookingStatus, id) ==
    [shape |-> shape, bookingStatus |-> bookingStatus, id |-> id]

\* The fields of the Booking model without a default
\* (src/models/booking_models.py).
BookingRequiredFields ==
    {"id", "dateTime", "covers", "bookedAt", "status", "originalEmail", "venue",
     "users", "partner"}

\* Mutant: only the status rejected is a refusal.
create_booking_from_response_accepting_lost(data, user) ==
    IF data.shape = "nokey" THEN Error("KeyError", "none")
    ELSE IF data.bookingStatus = "rejected"
    THEN BookingRejectedError(data.bookingStatus)
    ELSE Error("ValidationError", "none")

\* Lines 268-297: the Booking built from the response, or what is raised.
\* The constructor is given the keyword arguments below and validates them.
_create_booking_from_response(data, user) ==
    IF data.shape = "nokey" THEN Error("KeyError", "none")
    ELSE IF data.bookingStatus \in {"rejected", "lost"}
    THEN BookingRejectedError(data.bookingStatus)
    ELSE LET booking ==
                [id |-> data.id,
                 dateTime |-> "2025-01-01T18:00",
                 covers |-> "2",
                 bookedAt |-> "created_date",
                 status |-> IF data.bookingStatus = "confirmed"
                            THEN "completed" ELSE "requested",
                 tag |-> "Dinner",
                 originalEmail |-> "booking email",
                 venue |-> "venue",
                 users |-> <<user>>]
         IN  IF BookingRequiredFields \subseteq DOMAIN booking
             THEN Data(booking)
             ELSE Error("ValidationError", "none")

\* A caller is handed the availability slot to book, with the metaData
\* given; no call is under way with the slot it replaces.
TakeSlot(meta) ==
    /\ \A c \in Callers : bookings[c].pc # "post"
    /\ metaData' = meta
    /\ UNCHANGED <<MAX_RETRIES, now, _booking_types_cache, _last_cache_update,
                   calls, lookup_log, bookings>>

\* Caller c calls create_booking(venue_id, user, availability_slot, covers)
\* (lines 231-250, up to the await): the slot's dict, when it has a non-empty
\* one, is updated in place.
create_booking(c, venue_id, user, covers) ==
    /\ bookings[c].pc \in {"idle", "returned"}
    /\ metaData # NoSlot
    /\ LET frame == [IdleBooking EXCEPT !.venue_id = venue_id, !.user = user,
                                        !.covers = covers,
                                        !.found = designMyNight_or_empty(metaData)]
           params == Update(designMyNight_or_empty(metaData),
                            overlay(venue_id, user, covers))
       IN  IF metaData.kind = "none"
           THEN /\ bookings' = [bookings EXCEPT ![c] =
                        [frame EXCEPT !.pc = "returned",
                                      !.result = Error("AttributeError", "none")]]
                /\ metaData' = metaData
           ELSE /\ metaData' = IF IsNonEmptyDict(metaData)
                               THEN MetaData("dict", params) ELSE metaData
                /\ bookings' = [bookings EXCEPT ![c] =
                        IF missing_fields(params) # {}
                        THEN [frame EXCEPT !.pc = "returned", !.params = params,
                                !.result = BookingValidationError(missing_fields(params))]
                        ELSE [frame EXCEPT !.pc = "post", !.params = params,
                                !.request = NewRequest]]
    /\ UNCHANGED <<MAX_RETRIES, now, _booking_types_cache, _last_cache_update,
                   calls, lookup_log>>

\* The in-flight attempt of c's POST /bookings ends in outcome, with body data
\* when ok (lines 250-251).
BookingResponse(c, outcome, data) ==
    /\ bookings[c].pc = "post"
    /\ bookings[c].request.state = "inflight"
    /\ LET frame == bookings[c]
           req == _make_request_with_retry(frame.request, outcome, data)
       IN  bookings' = [bookings EXCEPT ![c] =
                IF req.state = "sleep" THEN [frame EXCEPT !.request = req]
                ELSE [frame EXCEPT
                        !.request = req,
                        !.pc = "returned",
                        !.result = IF IsError(req.result) THEN req.result
                                   ELSE _create_booking_from_response(data, frame.user)]]
    /\ UNCHANGED <<MAX_RETRIES, now, _booking_types_cache, _last_cache_update,
                   calls, lookup_log, metaData>>

\* The backoff sleep of c's POST /bookings is over.
BookingRetry(c) ==
    /\ bookings[c].pc = "post"
    /\ bookings[c].request.state = "sleep"
    /\ bookings' = [bookings EXCEPT ![c].request = next_attempt(@)]
    /\ UNCHANGED <<MAX_RETRIES, now, _booking_types_cache, _last_cache_update,
                   calls, lookup_log, metaData>>

\* Users: one with every contact field, one without email, one without phone.
FullUser ==
    [email |-> "ada@x.io", phone |-> "0700", firstName |-> "Ada",
     lastName |-> "Lovelace"]
Users ==
    {FullUser, [FullUser EXCEPT !.email = None], [FullUser EXCEPT !.phone = None]}

\* The metaData of the slots handed over: None; a bag without designMyNight;
\* an empty dict; the type alone; the type and another key; another key
\* without the type; the type with values for keys the call sets itself.
SlotMetaData ==
    {MetaData("none", EmptyDict),
     MetaData("null", EmptyDict),
     MetaData("dict", EmptyDict),
     MetaData("dict", "type" :> "t1"),
     MetaData("dict", ("type" :> "t1") @@ ("duration" :> "90")),
     MetaData("dict", "duration" :> "90"),
     MetaData("dict", ("type" :> "t1") @@ ("time" :> "20:00")
                        @@ ("email" :> "old@x.io"))}

BookingBodies ==
    {BookingResponseBody("ok", "confirmed", "b1"),
     BookingResponseBody("ok", "confirmed", "b2"),
     BookingResponseBody("ok", "pending", "b1"),
     BookingResponseBody("ok", "rejected", "b1"),
     BookingResponseBody("ok", "lost", "b1"),
     BookingResponseBody("nokey", "", "")}

\* One caller books slots, one call at a time.
NextBooking ==
    \/ \E meta \in SlotMetaData : TakeSlot(meta)
    \/ \E venue_id \in Venues, user \in Users, covers \in {"2", "4"} :
            create_booking(1, venue_id, user, covers)
    \/ \E outcome \in Outcomes \ {"ok"} : BookingResponse(1, outcome, NoBody)
    \/ \E data \in BookingBodies : BookingResponse(1, "ok", data)
    \/ BookingRetry(1)

SpecBooking == Init /\ [][NextBooking]_vars

\* Two callers book one and the same slot for the same venue, user and party,
\* one after the other or at the same time.
NextReplay ==
    \/ \E meta \in SlotMetaData : metaData = NoSlot /\ TakeSlot(meta)
    \/ \E c \in Callers :
          \/ \E venue_id \in Venues : create_booking(c, venue_id, FullUser, "2")
          \/ \E outcome \in Outcomes \ {"ok"} : BookingResponse(c, outcome, NoBody)
          \/ \E data \in BookingBodies : BookingResponse(c, "ok", data)
          \/ BookingRetry(c)

SpecReplay == Init /\ [][NextReplay]_vars

(***************************************************************************)
(* Properties.                                                             *)
(***************************************************************************)
Range(seq) == {seq[i] : i \in 1..Len(seq)}

\* The executor calls of the state: <<c, 0>> is the catalog lookup of c's
\* frame and <<c, i>> its task i.
Request(id) == IF id[2] = 0 THEN calls[id[1]].request ELSE calls[id[1]].tasks[id[2]]
LiveRequests ==
    {id \in UNION {{c} \X (0..Len(calls[c].tasks)) : c \in Callers} :
        Request(id).state # "none"}

\* The catalog lookup of a frame has ended, and failed: the executor raised,
\* or the response holds an entry that cannot be parsed.
LookupFailed(req) ==
    /\ req.state = "done"
    /\ \/ IsError(req.result)
       \/ /\ IsData(req.result)
          /\ \E i \in 1..Len(req.result.data) : req.result.data[i].shape = "nokey"

\* The booking types of a frame were resolved: from the cache, or by a
\* lookup that ended and did not fail.
LookupSucceeded(frame) ==
    /\ frame.pc \in {"gather", "returned"}
    /\ \/ frame.request.state = "none"
       \/ frame.request.state = "done" /\ ~LookupFailed(frame.request)

\* C1: when the catalog lookup times out on every attempt up to MAX_RETRIES,
\* get_availability_per_date fails with RequestFailedError (and returns no
\* slot list).
C1_CatalogTimeoutIsRequestFailed ==
    \A c \in Callers :
        (/\ calls[c].pc = "returned"
         /\ calls[c].request.state = "done"
         /\ calls[c].request.last = "timeout"
         /\ calls[c].request.only_timeouts
         /\ AttemptsIssued(calls[c].request) = MAX_RETRIES)
        => (IsError(calls[c].result) /\ calls[c].result.name = "RequestFailedError")

\* C2: one call of the executor issues at most MAX_RETRIES attempts, stops at
\* the first attempt that succeeds, and surfaces a timeout or a
\* transport/non-2xx failure only once attempt number MAX_RETRIES has failed:
\* before that a failed attempt leads to the backoff sleep.
C2_RetryPolicy ==
    \A id \in LiveRequests : LET r == Request(id) IN
        /\ AttemptsIssued(r) <= MAX_RETRIES
        /\ r.last = "ok" => (r.state = "done" /\ IsData(r.result))
        /\ (r.state = "done" /\ IsError(r.result)
              /\ r.result.name \in {"TimeoutError", "RequestFailedError"})
            => (AttemptsIssued(r) = MAX_RETRIES /\ r.last \in {"timeout", "client_error"})
        /\ (r.last \in {"timeout", "client_error"} /\ AttemptsIssued(r) < MAX_RETRIES)
            => (r.state = "sleep" /\ r.result = NoResult)

\* C2's case: an executor call that was retried and then surfaced its failure.
C2_Witness ==
    \E id \in LiveRequests : LET r == Request(id) IN
        /\ r.state = "done"
        /\ IsError(r.result)
        /\ r.result.name \in {"TimeoutError", "RequestFailedError"}
        /\ r.attempt >= 1

\* C3: when the last attempt of an executor call fails with a non-2xx status
\* or a transport failure (ClientError), the call raises RequestFailedError
\* wrapping that cause and returns no response; a lookup that ends so hands
\* exactly this error to the caller of get_availability_per_date.
C3_ClientErrorIsWrapped ==
    /\ \A id \in LiveRequests : LET r == Request(id) IN
          (r.last = "client_error" /\ AttemptsIssued(r) = MAX_RETRIES)
          => (r.state = "done" /\ r.result = Error("RequestFailedError", "ClientError"))
    /\ \A c \in Callers :
          (calls[c].request.state = "done" /\ calls[c].request.last = "client_error")
          => calls[c].result = Error("RequestFailedError", "ClientError")

\* C3's case: a lookup whose last attempt failed with a ClientError after an
\* earlier attempt had failed too.
C3_Witness ==
    \E c \in Callers :
        /\ calls[c].pc = "returned"
        /\ calls[c].request.last = "client_error"
        /\ calls[c].request.attempt >= 1
        /\ calls[c].result.name = "RequestFailedError"

\* C4: two calls for the same venue that start within the TTL window of each
\* other issue at most one catalog lookup between them: no two lookups of a
\* venue are issued less than a TTL apart.
C4_OneLookupPerTtlWindow ==
    \A v \in Venues :
        Len(lookup_log[v]) = 2
        => lookup_log[v][2].time - lookup_log[v][1].time >= BOOKING_TYPES_CACHE_TTL

\* C5: no two catalog lookups for the same venue are in flight at once on
\* one client.
C5_NoConcurrentRefresh ==
    \A c1, c2 \in Callers :
        (c1 # c2 /\ calls[c1].pc = "catalog" /\ calls[c2].pc = "catalog")
        => calls[c1].venue_id # calls[c2].venue_id

\* Caller c starts a call of get_availability_per_date for venue v in this
\* step (a frame that is idle or has returned changes by nothing else).
CallStarts(c, v) ==
    /\ calls[c].pc \in {"idle", "returned"}
    /\ calls'[c] # calls[c]
    /\ calls'[c].venue_id = v

\* C6: a call made while the cache holds an entry of the venue younger than
\* the TTL gets exactly the cached set, issues no catalog lookup, and leaves
\* the entry and its timestamp as they were.
C6_ValidEntryIsReused ==
    [][\A c \in Callers, v \in Venues :
          (/\ CallStarts(c, v)
           /\ v \in DOMAIN _booking_types_cache
           /\ now - _last_cache_update[v] < BOOKING_TYPES_CACHE_TTL)
          => /\ Range(calls'[c].booking_types) = _booking_types_cache[v]
             /\ calls'[c].pc # "catalog"
             /\ calls'[c].request = NoRequest
             /\ lookup_log' = lookup_log
             /\ _booking_types_cache' = _booking_types_cache
             /\ _last_cache_update' = _last_cache_update]_vars

\* C6's case: a call served from a cached, non-empty set, its gather started.
C6_Witness ==
    \E c \in Callers :
        /\ calls[c].pc = "gather"
        /\ calls[c].request = NoRequest
        /\ calls[c].booking_types # <<>>

\* The catalog lookup of caller c ends in this step with a response that
\* parses.
LookupSucceeds(c) ==
    /\ calls[c].pc = "catalog"
    /\ calls'[c].request.state = "done"
    /\ ~LookupFailed(calls'[c].request)

\* C7: a call made once the venue's entry has reached age TTL issues exactly
\* one catalog lookup (at the call, and no step other than a call issues
\* one); when a lookup succeeds the entry becomes exactly the set fetched,
\* without what it held before, and its timestamp the time the call read,
\* which is later than the timestamp replaced.
C7_ExpiredEntryIsRefetched ==
    [][/\ \A c \in Callers, v \in Venues :
            (/\ CallStarts(c, v)
             /\ v \in DOMAIN _booking_types_cache
             /\ now - _last_cache_update[v] >= BOOKING_TYPES_CACHE_TTL)
            => /\ calls'[c].pc = "catalog"
               /\ calls'[c].request = NewRequest
               /\ lookup_log' = [lookup_log EXCEPT ![v] =
                        Logged(@, [time |-> now, refresh |-> TRUE])]
       /\ (\A c \in Callers, v \in Venues : ~CallStarts(c, v))
            => lookup_log' = lookup_log
       /\ \A c \in Callers :
            LookupSucceeds(c)
            => LET v == calls[c].venue_id
                   fetched == parse_booking_types(calls'[c].request.result.data).data
               IN  /\ v \in DOMAIN _booking_types_cache'
                   /\ _booking_types_cache'[v] = fetched
                   /\ _last_cache_update'[v] = calls[c].current_time
                   /\ v \in DOMAIN _last_cache_update
                        => _last_cache_update'[v] > _last_cache_update[v]]_vars

\* C7's case: the entry of a venue stems from a lookup that was issued when
\* an entry of the venue existed and had expired, and it is not empty.
C7_Witness ==
    \E v \in DOMAIN _booking_types_cache :
        /\ lookup_log[v] # <<>>
        /\ lookup_log[v][Len(lookup_log[v])].refresh
        /\ _last_cache_update[v] = lookup_log[v][Len(lookup_log[v])].time
        /\ _booking_types_cache[v] # {}

\* C8: when the catalog fetch or the parsing of its response fails, the call
\* ends with the error (the executor's own, when it raised) and the cache
\* and its timestamps are unchanged.
C8_FailedFetchLeavesCache ==
    [][\A c \in Callers :
          (calls[c].pc = "catalog" /\ LookupFailed(calls'[c].request))
          => /\ calls'[c].pc = "returned"
             /\ IsError(calls'[c].result)
             /\ IsError(calls'[c].request.result)
                  => calls'[c].result = calls'[c].request.result
             /\ _booking_types_cache' = _booking_types_cache
             /\ _last_cache_update' = _last_cache_update]_vars

\* C8's case: a lookup failed on parsing while an entry of the venue existed.
C8_Witness ==
    \E c \in Callers :
        /\ calls[c].pc = "returned"
        /\ LookupFailed(calls[c].request)
        /\ IsData(calls[c].request.result)
        /\ calls[c].venue_id \in DOMAIN _booking_types_cache

\* C9: when the booking types cannot be resolved the call fails and no
\* sub-request is issued, also when a stale entry of the venue exists.
C9_NoFallbackToStaleSet ==
    \A c \in Callers :
        LookupFailed(calls[c].request)
        => /\ calls[c].pc = "returned"
           /\ IsError(calls[c].result)
           /\ calls[c].tasks = <<>>
           /\ calls[c].results = <<>>
           /\ calls[c].booking_types = <<>>

\* C9's case: the executor raised while a stale, non-empty entry existed.
C9_Witness ==
    \E c \in Callers :
        /\ calls[c].pc = "returned"
        /\ IsError(calls[c].request.result)
        /\ calls[c].venue_id \in DOMAIN _booking_types_cache
        /\ _booking_types_cache[calls[c].venue_id] # {}

\* C10: whenever the booking types are resolved (by a lookup or from the
\* cache), get_availability_per_date returns a slot list and does not fail,
\* whatever its sub-requests end in.
C10_ReturnsSlotsOnceTypesResolved ==
    \A c \in Callers :
        (calls[c].pc = "returned" /\ LookupSucceeded(calls[c]))
        => IsData(calls[c].result)

(***************************************************************************)
(* The aggregation, read off a frame that has returned: what each          *)
(* sub-request of booking type k (the k-th of the fan-out) ended in, taken *)
(* from its executor call.                                                 *)
(***************************************************************************)
\* The call of c resolved its booking types and returned a slot list.
ReturnedSlots(c) ==
    /\ calls[c].pc = "returned"
    /\ LookupSucceeded(calls[c])
    /\ IsData(calls[c].result)

TimeSlotsRequest(c, k) == calls[c].tasks[2 * k - 1]
DetailsRequest(c, k) == calls[c].tasks[2 * k]

\* The time-slot sub-request of type k succeeded: a response arrived and
\* every suggestion of it could be read.
TimeSlotsSucceeded(c, k) ==
    /\ IsData(TimeSlotsRequest(c, k).result)
    /\ \A raw \in Range(TimeSlotsRequest(c, k).result.data) :
            ~(raw.valid /\ raw.time # EmptyStr /\ raw.action = NoKey)

\* The details sub-request of type k succeeded with a well-formed payload.
DetailsSucceeded(c, k) ==
    /\ IsData(DetailsRequest(c, k).result)
    /\ DetailsRequest(c, k).result.data.shape = "ok"

TypeSucceeded(c, k) == TimeSlotsSucceeded(c, k) /\ DetailsSucceeded(c, k)

\* The raw suggestions of type k that survive the filter.
Surviving(c, k) ==
    {i \in 1..Len(TimeSlotsRequest(c, k).result.data) :
        LET raw == TimeSlotsRequest(c, k).result.data[i]
        IN  raw.valid /\ raw.time # EmptyStr /\ raw.action # "reject"}

\* The positions of the returned sequence that carry the tag of type k.
SlotsOfType(c, k) ==
    {i \in 1..Len(calls[c].result.data) :
        calls[c].result.data[i].tag = calls[c].booking_types[k].name}

C12_FanOutAndJoin ==
    [][\A c \in Callers :
          /\ (calls[c].pc # "gather" /\ calls'[c].pc = "gather")
                => /\ Len(calls'[c].tasks) = 2 * Len(calls'[c].booking_types)
                   /\ \A i \in 1..Len(calls'[c].tasks) :
                        calls'[c].tasks[i] = NewRequest
          /\ (calls[c].pc = "gather" /\ calls'[c].pc = "returned")
                => /\ Len(calls[c].tasks) = 2 * Len(calls[c].booking_types)
                   /\ \A i \in 1..Len(calls[c].tasks) :
                        calls[c].tasks[i].state = "done"
                   /\ calls'[c].tasks = calls[c].tasks
          /\ calls[c].pc = "gather"
                => \A i \in 1..Len(calls[c].tasks) :
                      (/\ calls[c].tasks[i].state # "done"
                       /\ calls'[c].tasks[i].state = "done"
                       /\ IsError(calls'[c].tasks[i].result))
                      => /\ calls'[c].pc = "gather"
                         /\ \A j \in 1..Len(calls[c].tasks) \ {i} :
                              calls'[c].tasks[j] = calls[c].tasks[j]]_vars

\* C12's case: a call over two booking types returned after four
\* sub-requests, one of which failed while its sibling succeeded.
C12_Witness ==
    \E c \in Callers :
        /\ calls[c].pc = "returned"
        /\ Len(calls[c].booking_types) = 2
        /\ Len(calls[c].tasks) = 4
        /\ \E k \in 1..2 :
              /\ IsError(TimeSlotsRequest(c, k).result)
              /\ IsData(DetailsRequest(c, k).result)

\* What sub-request i of c's call returned or raised, read off its executor
\* call alone.
SubRequestResult(c, i) ==
    LET req == calls[c].tasks[i]
    IN  task_result(i, req, IF IsData(req.result) THEN req.result.data ELSE NoBody)

\* C13: what a call returns is fixed by the booking types, in the order the
\* call iterates them, and by what each sub-request ended in: the gathered
\* results stand in launch order and the call returns their aggregate, in
\* whatever order the sub-requests settled.
C13_ResultIndependentOfCompletionOrder ==
    \A c \in Callers :
        (calls[c].pc = "returned" /\ LookupSucceeded(calls[c]))
        => LET outcomes == [i \in 1..Len(calls[c].tasks) |-> SubRequestResult(c, i)]
           IN  /\ calls[c].results = outcomes
               /\ calls[c].result = aggregate(calls[c].booking_types, outcomes)

\* C13's case: slots of two booking types were returned by a call whose
\* sub-requests did not settle in launch order.
C13_Witness ==
    \E c \in Callers :
        /\ ReturnedSlots(c)
        /\ calls[c].overtaken
        /\ Len(calls[c].booking_types) = 2
        /\ \A k \in 1..2 : SlotsOfType(c, k) # {}

\* C14: in every slot sequence a call returns, each slot's timeSlot is less
\* than or equal to its successor's in the order of Python strings
\* (lexicographic by character).
C14_SortedByTimeSlot ==
    \A c \in Callers :
        ReturnedSlots(c)
        => \A i \in 1..(Len(calls[c].result.data) - 1) :
              StrLeq(calls[c].result.data[i].timeSlot,
                     calls[c].result.data[i + 1].timeSlot)

\* C14's case: a returned sequence that holds "18:00", "19:00" and "9:00",
\* slots of two booking types of which one listed 19:00 before 18:00.
C14_Witness ==
    \E c \in Callers :
        /\ ReturnedSlots(c)
        /\ {T1800, T1900, T0900} \subseteq
                {calls[c].result.data[i].timeSlot : i \in 1..Len(calls[c].result.data)}
        /\ \E k \in 1..Len(calls[c].booking_types) :
              /\ TypeSucceeded(c, k)
              /\ Len(TimeSlotsRequest(c, k).result.data) = 2
              /\ TimeSlotsRequest(c, k).result.data[1].time = T1900

\* The times the provider's responses carry.
Times == {EmptyStr, T0900, T1800, T1900}

C17_SlotPairedWithOwnType ==
    \A c \in Callers :
        ReturnedSlots(c)
        => \A k \in 1..Len(calls[c].booking_types) :
              \A i \in SlotsOfType(c, k) :
                LET slot == calls[c].result.data[i]
                    raws == TimeSlotsRequest(c, k).result.data
                    details == DetailsRequest(c, k).result.data
                IN  /\ TypeSucceeded(c, k)
                    /\ \E j \in Surviving(c, k) : raws[j].time = slot.timeSlot
                    /\ slot.url = details.web
                    /\ slot.metaData = details.details
                    /\ slot.requiredDeposit = details.deposit

\* C17's case: slots of two booking types with different details were
\* returned by a call whose sub-requests did not settle in launch order.
C17_Witness ==
    \E c \in Callers :
        /\ ReturnedSlots(c)
        /\ calls[c].overtaken
        /\ Len(calls[c].booking_types) = 2
        /\ \A k \in 1..2 : SlotsOfType(c, k) # {}
        /\ DetailsRequest(c, 1).result.data # DetailsRequest(c, 2).result.data
        /\ TimeSlotsRequest(c, 1).result.data # TimeSlotsRequest(c, 2).result.data

\* C18: a call whose booking types resolve to the empty set, by a lookup
\* that succeeds or from the cache, returns the empty sequence without an
\* error and never waits for a sub-request: it has no task at all.
C18_NoBookingTypesNoSlots ==
    \A c \in Callers :
        (/\ LookupSucceeded(calls[c])
         /\ calls[c].venue_id \in DOMAIN _booking_types_cache
         /\ _booking_types_cache[calls[c].venue_id] = {})
        => /\ calls[c].pc = "returned"
           /\ calls[c].result = Data(<<>>)
           /\ calls[c].tasks = <<>>
           /\ calls[c].results = <<>>

\* C18's case: a catalog lookup answered with no booking type, and the call
\* returned.
C18_Witness ==
    \E c \in Callers :
        /\ calls[c].pc = "returned"
        /\ calls[c].request.state = "done"
        /\ calls[c].request.result = Data(<<>>)
        /\ _booking_types_cache[calls[c].venue_id] = {}

\* C19: whenever the parameters create_booking has merged lack some of the
\* required fields, the call has ended with BookingValidationError naming
\* exactly the fields that are lacking, and it has made no request.
C19_RequiredFieldsCheckedBeforeRequest ==
    \A c \in Callers :
        LET params == bookings[c].params
            lacking == REQUIRED_BOOKING_FIELDS \ DOMAIN params
        IN  (DOMAIN params # {} /\ lacking # {})
            => /\ bookings[c].pc = "returned"
               /\ bookings[c].result.name = "BookingValidationError"
               /\ bookings[c].result.missing_fields = lacking
               /\ bookings[c].request = NoRequest

\* C19's case: a call for a slot whose dict holds no type ended with
\* BookingValidationError naming type, without a request.
C19_Witness ==
    \E c \in Callers :
        /\ bookings[c].pc = "returned"
        /\ DOMAIN bookings[c].params # {}
        /\ "type" \notin DOMAIN bookings[c].params
        /\ bookings[c].result = BookingValidationError({"type"})
        /\ bookings[c].request = NoRequest

\* C20: a call whose user has no email, every other required field being
\* there, ends with BookingValidationError naming email and makes no
\* request.
C20_MissingEmailIsRejected ==
    \A c \in Callers :
        (/\ bookings[c].pc # "idle"
         /\ bookings[c].user.email = None
         /\ "type" \in DOMAIN bookings[c].params)
        => /\ bookings[c].pc = "returned"
           /\ bookings[c].result.name = "BookingValidationError"
           /\ bookings[c].result.missing_fields = {"email"}
           /\ bookings[c].request = NoRequest

\* The POST /bookings of caller c was answered with a well-formed body.
Answered(frame) ==
    /\ frame.request.state = "done"
    /\ IsData(frame.request.result)
    /\ frame.request.result.data.shape = "ok"

\* C21: when the provider answers a submission with the booking status
\* rejected or lost, the call ends with BookingRejectedError carrying that
\* status and returns no Booking; the answer is the one successful exchange
\* of the call, which issues no attempt after it.
C21_RejectionIsSurfaced ==
    \A c \in Callers :
        (/\ Answered(bookings[c])
         /\ bookings[c].request.result.data.bookingStatus \in {"rejected", "lost"})
        => /\ bookings[c].pc = "returned"
           /\ bookings[c].result.kind = "error"
           /\ bookings[c].result.name = "BookingRejectedError"
           /\ bookings[c].result.status = bookings[c].request.result.data.bookingStatus
           /\ bookings[c].request.last = "ok"

\* C21's case: a submission that was retried after a failed attempt, then
\* answered with the status lost, ended with BookingRejectedError.
C21_Witness ==
    \E c \in Callers :
        /\ bookings[c].pc = "returned"
        /\ bookings[c].request.attempt >= 1
        /\ bookings[c].result = BookingRejectedError("lost")

\* C22: every call of create_booking that has ended returned a Booking whose
\* status is COMPLETED or REQUESTED, or raised RequestFailedError,
\* BookingValidationError or BookingRejectedError, and nothing else.
C22_OnlyNamedOutcomes ==
    \A c \in Callers :
        bookings[c].pc = "returned"
        => \/ /\ IsData(bookings[c].result)
              /\ bookings[c].result.data.status \in {"completed", "requested"}
           \/ /\ IsError(bookings[c].result)
              /\ bookings[c].result.name \in
                    {"RequestFailedError", "BookingValidationError",
                     "BookingRejectedError"}

\* C23: when the provider answers a submission with a status that is no
\* refusal, the call returns a Booking, whose status is COMPLETED if the
\* provider's status is confirmed and REQUESTED if it is anything else.
C23_StatusMapping ==
    \A c \in Callers :
        (/\ bookings[c].pc = "returned"
         /\ Answered(bookings[c])
         /\ bookings[c].request.result.data.bookingStatus \notin {"rejected", "lost"})
        => /\ IsData(bookings[c].result)
           /\ bookings[c].result.data.status =
                IF bookings[c].request.result.data.bookingStatus = "confirmed"
                THEN "completed" ELSE "requested"

\* The call of the frame sent POST /bookings.
Submitted(frame) == frame.request # NoRequest

\* C24: two calls of create_booking with the same venue, user, slot and
\* covers each send POST /bookings, with the same parameters, and each call
\* that the provider answers without a refusal returns a Booking, with the
\* id the provider gave in the answer to that very call.
C24_NoDeduplication ==
    \A c1, c2 \in Callers :
        (c1 # c2 /\ Submitted(bookings[c1]) /\ Submitted(bookings[c2]))
        => /\ bookings[c1].params = bookings[c2].params
           /\ \A c \in {c1, c2} :
                (/\ bookings[c].pc = "returned"
                 /\ Answered(bookings[c])
                 /\ bookings[c].request.result.data.bookingStatus
                        \notin {"rejected", "lost"})
                => /\ IsData(bookings[c].result)
                   /\ bookings[c].result.data.id = bookings[c].request.result.data.id

\* C25: a step of a call of create_booking leaves the metaData of the slot
\* it was given as it was: the slot's bag holds the same keys and values
\* after the call as before it.
C25_SlotNotModified ==
    [][\A c \in Callers :
          bookings'[c] # bookings[c] => metaData' = metaData]_vars

\* The keys create_booking sets itself.
OverlayKeys ==
    {"venue_id", "date", "time", "num_people", "source", "first_name",
     "last_name", "email", "phone"}

\* C26: in the parameters a call of create_booking submits, the nine keys
\* the call sets itself carry the values of this call, whatever the slot's
\* bag held for them, and every other key of the bag is there with the
\* value the bag held; the parameters hold no further key.
C26_OverlayWinsLast ==
    \A c \in Callers :
        LET frame == bookings[c]
            params == frame.params
        IN  Submitted(frame)
            => /\ DOMAIN params = DOMAIN frame.found \cup OverlayKeys
               /\ params["venue_id"] = frame.venue_id
               /\ params["date"] = "2025-01-01"
               /\ params["time"] = "18:00"
               /\ params["num_people"] = frame.covers
               /\ params["source"] = "partner"
               /\ params["first_name"] = frame.user.firstName
               /\ params["last_name"] = frame.user.lastName
               /\ params["email"] = frame.user.email
               /\ params["phone"] = frame.user.phone
               /\ \A k \in DOMAIN frame.found \ OverlayKeys :
                    params[k] = frame.found[k]

\* C26's case: a submission for a slot whose bag held another time, another
\* email and the type.
C26_Witness ==
    \E c \in Callers :
        /\ Submitted(bookings[c])
        /\ {"time", "email", "type"} \subseteq DOMAIN bookings[c].found
        /\ bookings[c].found["time"] # bookings[c].params["time"]
        /\ bookings[c].found["email"] # bookings[c].params["email"]
        /\ bookings[c].found["type"] = bookings[c].params["type"]

\* The cached set of venue v or its timestamp is created or changed in this
\* step.
EntryChanges(v) ==
    \/ (v \in DOMAIN _booking_types_cache) # (v \in DOMAIN _booking_types_cache')
    \/ (v \in DOMAIN _last_cache_update) # (v \in DOMAIN _last_cache_update')
    \/ /\ v \in DOMAIN _booking_types_cache
       /\ v \in DOMAIN _booking_types_cache'
       /\ _booking_types_cache'[v] # _booking_types_cache[v]
    \/ /\ v \in DOMAIN _last_cache_update
       /\ v \in DOMAIN _last_cache_update'
       /\ _last_cache_update'[v] # _last_cache_update[v]

\* C27: in every state the venues with a cached set are the venues with a
\* timestamp; a lookup reads its start time when the call begins; and the
\* set and the timestamp of a venue change only together, in the step in
\* which a lookup for the venue succeeds, to the set that lookup fetched and
\* to the start time of that same lookup, whatever other lookups are under
\* way.
C27_SetAndTimestampChangeTogether ==
    [][/\ DOMAIN _booking_types_cache = DOMAIN _last_cache_update
       /\ DOMAIN _booking_types_cache' = DOMAIN _last_cache_update'
       /\ \A c \in Callers, v \in Venues :
            (CallStarts(c, v) /\ calls'[c].pc = "catalog")
            => calls'[c].current_time = now
       /\ \A v \in Venues :
            EntryChanges(v)
            => \E c \in Callers :
                  /\ calls[c].venue_id = v
                  /\ LookupSucceeds(c)
                  /\ _booking_types_cache'[v] =
                        parse_booking_types(calls'[c].request.result.data).data
                  /\ _last_cache_update'[v] = calls[c].current_time]_vars

\* C27's case: a venue has a non-empty cached set while another lookup for
\* it, begun at another time than the one the entry is stamped with, is
\* under way.
C27_Witness ==
    \E v \in DOMAIN _booking_types_cache : \E c \in Callers :
        /\ _booking_types_cache[v] # {}
        /\ calls[c].pc = "catalog"
        /\ calls[c].venue_id = v
        /\ calls[c].current_time # _last_cache_update[v]
        /\ _last_cache_update[v] < now

\* C28: the timestamp recorded for a venue never decreases, whatever the
\* order in which concurrent lookups for the venue begin and end.
C28_TimestampNeverDecreases ==
    [][\A v \in DOMAIN _last_cache_update :
          _last_cache_update'[v] >= _last_cache_update[v]]_vars

====
